---- MODULE Spec2Model ----
(***************************************************************************)
(* BTCFlushPredictor (src/flusherr.py): the funding-pressure score, the    *)
(* structural-breakdown score, the time-regime classifier and the decision *)
(* list of predict, as a state machine over one predictor instance.        *)
(*                                                                         *)
(* Numbers.  The program computes in Python floats.  The model computes    *)
(* the same expressions in exact rational arithmetic: a number is a record *)
(* [n |-> numerator, d |-> denominator] in lowest terms with d > 0.  The   *)
(* thresholds (0.6, 0.7, 0.65, 0.5, 0.85, 0.01 ...) are the rationals the   *)
(* source literals denote.  volume_24h is carried in millions, so that the *)
(* 5e9 reference scale is 5000 (TLC integers are 32 bits wide).            *)
(***************************************************************************)
EXTENDS Integers, Sequences, FiniteSets, TLC

VARIABLES
    hour_utc,           \* datetime.utcnow().hour, the wall clock read by the classifier
    state,              \* the MarketState predict is called with
    flush_probability,  \* self.flush_probability
    features,           \* contents of the dict object self.features
    result,             \* outcome of the latest predict call
    held,               \* a returned dict the caller has kept, with its call
    ticked,             \* the clock has moved since the call that returned `held`
    between             \* predict ran on another MarketState since that call

vars == <<hour_utc, state, flush_probability, features, result, held, ticked, between>>

---------------------------------------------------------------------------
(* Exact rational arithmetic standing for the float operators.             *)

Abs(x) == IF x < 0 THEN -x ELSE x

RECURSIVE Gcd(_, _)
Gcd(a, b) == IF b = 0 THEN a ELSE Gcd(b, a % b)

\* n/d in lowest terms, d > 0 on return (d # 0 required); g is gcd(|n|, |d|)
Reduce(n, d, g) ==
    IF d < 0 THEN [n |-> -(n \div g), d |-> -(d \div g)]
             ELSE [n |-> n \div g, d |-> d \div g]

Rat(n, d) == Reduce(n, d, Gcd(Abs(n), Abs(d)))

RInt(k) == [n |-> k, d |-> 1]

\* a + b over the least common denominator; g is gcd(a.d, b.d)
AddOver(a, b, g) == Rat(a.n * (b.d \div g) + b.n * (a.d \div g), (a.d \div g) * b.d)

RAdd(a, b) == AddOver(a, b, Gcd(a.d, b.d))

RNeg(a) == [n |-> -a.n, d |-> a.d]

RSub(a, b) == RAdd(a, RNeg(b))

\* a * b, cancelled crosswise first; g1 is gcd(|a.n|, b.d), g2 is gcd(|b.n|, a.d)
MulOver(a, b, g1, g2) ==
    Rat((a.n \div g1) * (b.n \div g2), (a.d \div g2) * (b.d \div g1))

RMul(a, b) == MulOver(a, b, Gcd(Abs(a.n), b.d), Gcd(Abs(b.n), a.d))

\* a / b for b # 0; the callers raise ZeroDivisionError before dividing by 0
RDiv(a, b) == RMul(a, Rat(b.d, b.n))

LessOver(a, b, g) == a.n * (b.d \div g) < b.n * (a.d \div g)

RLess(a, b) == LessOver(a, b, Gcd(a.d, b.d))

RLeq(a, b) == ~RLess(b, a)

RAbs(a) == [n |-> Abs(a.n), d |-> a.d]

\* Python's min(a, b) and max(a, b): the first argument wins a tie
RMin(a, b) == IF RLess(b, a) THEN b ELSE a

RMax(a, b) == IF RLess(a, b) THEN b ELSE a

Zero == RInt(0)

One == RInt(1)

---------------------------------------------------------------------------
(* The dict self.features: a function from the keys set so far.            *)

EmptyDict == [k \in {} |-> Zero]

DictSet(dict, key, value) ==
    [k \in (DOMAIN dict) \cup {key} |-> IF k = key THEN value ELSE dict[k]]

\* a scorer's normal exit: the dict as written, and the entry read back from it
Wrote(dict, key) == [raised |-> FALSE, features |-> dict, ret |-> dict[key]]

\* a scorer left by ZeroDivisionError: the dict as it was
Threw(dict) == [raised |-> TRUE, features |-> dict, ret |-> Zero]

---------------------------------------------------------------------------
(* calculate_funding_pressure(self, state): writes                         *)
(* self.features['funding_pressure'] and returns it; raises                *)
(* ZeroDivisionError at the division by resistance_level, before the write.*)

funding_z(st) == RMin(RDiv(RAbs(st.funding_rate), Rat(8, 10000)), One)

time_pressure(st) ==
    RMax(Rat(3, 10),
         RMin(RSub(One, RDiv(st.funding_countdown_hours, RInt(8))), Rat(95, 100)))

price_vs_resistance(st) ==
    RDiv(RSub(st.resistance_level, st.price), st.resistance_level)

\* funding_penalty with the price test left out: 1.5 for any positive funding
funding_penalty_any_positive(st) ==
    IF RLess(Zero, st.funding_rate) THEN Rat(15, 10) ELSE One

funding_penalty(st) ==
    IF RLess(Zero, st.funding_rate) /\ RLess(Rat(1, 100), price_vs_resistance(st))
    THEN Rat(15, 10)
    ELSE One

calculate_funding_pressure(self_features, st) ==
    IF st.resistance_level = Zero
    THEN Threw(self_features)
    ELSE Wrote(DictSet(self_features, "funding_pressure",
                       RMul(RMul(funding_z(st), time_pressure(st)), funding_penalty(st))),
               "funding_pressure")

---------------------------------------------------------------------------
(* structural_breakdown_score(self, state): writes                         *)
(* self.features['structure_score'] and returns it; raises                 *)
(* ZeroDivisionError at the division by support_level, which is reached    *)
(* only when price >= support_level.                                       *)

distance_to_support(st) == RDiv(RSub(st.price, st.support_level), st.support_level)

breakdown_severity(st) ==
    IF RLess(st.price, st.support_level)
    THEN One
    ELSE RMax(Zero, RSub(One, RMul(distance_to_support(st), RInt(10))))

\* volume_24h / 5e9 with both in millions
volume_score(st) == RMin(RDiv(st.volume_24h, RInt(5000)), One)

rsi_score(st) ==
    IF RLess(st.rsi_1h, RInt(50))
    THEN RDiv(RSub(RInt(50), st.rsi_1h), RInt(50))
    ELSE Zero

structural_breakdown_score(self_features, st) ==
    IF ~RLess(st.price, st.support_level) /\ st.support_level = Zero
    THEN Threw(self_features)
    ELSE Wrote(DictSet(self_features, "structure_score",
                       RAdd(RAdd(RMul(breakdown_severity(st), Rat(5, 10)),
                                 RMul(volume_score(st), Rat(3, 10))),
                            RMul(rsi_score(st), Rat(2, 10)))),
               "structure_score")

---------------------------------------------------------------------------
(* time_regime_classifier(self, state), with the clock's hour passed in.   *)

\* time_regime_classifier with the US window's end excluded: 19 <= hour < 21
time_regime_classifier_open_end(hour, st) ==
    IF 8 <= hour /\ hour < 16
    THEN IF RLess(st.funding_countdown_hours, One)
         THEN "funding_liquidation_window"
         ELSE "consolidation_bleed"
    ELSE IF 0 <= hour /\ hour < 8
    THEN "asia_deleveraging"
    ELSE IF 19 <= hour /\ hour < 21
    THEN "us_momentum"
    ELSE "standard"

time_regime_classifier(hour, st) ==
    IF 8 <= hour /\ hour < 16
    THEN IF RLess(st.funding_countdown_hours, One)
         THEN "funding_liquidation_window"
         ELSE "consolidation_bleed"
    ELSE IF 0 <= hour /\ hour < 8
    THEN "asia_deleveraging"
    ELSE IF 19 <= hour /\ hour <= 21
    THEN "us_momentum"
    ELSE "standard"

---------------------------------------------------------------------------
(* The decision list of predict (lines 102-119): the value assigned to     *)
(* self.flush_probability and the target, by the first branch that matches.*)

\* FlushModel with rule 1's product not capped at 0.85
FlushModelUncapped(st, funding_pain, structural_damage, regime) ==
    IF regime = "funding_liquidation_window" /\ RLess(Rat(6, 10), funding_pain)
    THEN [flush_probability |-> RMul(RMul(funding_pain, structural_damage), Rat(12, 10)),
          target |-> RMul(st.support_level, Rat(995, 1000))]
    ELSE IF RLess(Rat(7, 10), structural_damage) /\ RLess(Zero, st.funding_rate)
    THEN [flush_probability |-> RMul(structural_damage, Rat(8, 10)),
          target |-> st.support_level]
    ELSE IF regime = "consolidation_bleed" /\ RLess(st.rsi_1h, RInt(40))
    THEN [flush_probability |-> Rat(5, 10), target |-> st.support_level]
    ELSE [flush_probability |-> Rat(2, 10), target |-> st.resistance_level]

\* FlushModel with the structure rule tested before the funding-window rule
FlushModelStructureFirst(st, funding_pain, structural_damage, regime) ==
    IF RLess(Rat(7, 10), structural_damage) /\ RLess(Zero, st.funding_rate)
    THEN [flush_probability |-> RMul(structural_damage, Rat(8, 10)),
          target |-> st.support_level]
    ELSE IF regime = "funding_liquidation_window" /\ RLess(Rat(6, 10), funding_pain)
    THEN [flush_probability |->
              RMin(RMul(RMul(funding_pain, structural_damage), Rat(12, 10)), Rat(85, 100)),
          target |-> RMul(st.support_level, Rat(995, 1000))]
    ELSE IF regime = "consolidation_bleed" /\ RLess(st.rsi_1h, RInt(40))
    THEN [flush_probability |-> Rat(5, 10), target |-> st.support_level]
    ELSE [flush_probability |-> Rat(2, 10), target |-> st.resistance_level]

\* FlushModel with the structure rule aiming at resistance_level
FlushModelTargetsResistance(st, funding_pain, structural_damage, regime) ==
    IF regime = "funding_liquidation_window" /\ RLess(Rat(6, 10), funding_pain)
    THEN [flush_probability |->
              RMin(RMul(RMul(funding_pain, structural_damage), Rat(12, 10)), Rat(85, 100)),
          target |-> RMul(st.support_level, Rat(995, 1000))]
    ELSE IF RLess(Rat(7, 10), structural_damage) /\ RLess(Zero, st.funding_rate)
    THEN [flush_probability |-> RMul(structural_damage, Rat(8, 10)),
          target |-> st.resistance_level]
    ELSE IF regime = "consolidation_bleed" /\ RLess(st.rsi_1h, RInt(40))
    THEN [flush_probability |-> Rat(5, 10), target |-> st.support_level]
    ELSE [flush_probability |-> Rat(2, 10), target |-> st.resistance_level]

FlushModel(st, funding_pain, structural_damage, regime) ==
    IF regime = "funding_liquidation_window" /\ RLess(Rat(6, 10), funding_pain)
    THEN [flush_probability |->
              RMin(RMul(RMul(funding_pain, structural_damage), Rat(12, 10)), Rat(85, 100)),
          target |-> RMul(st.support_level, Rat(995, 1000))]
    ELSE IF RLess(Rat(7, 10), structural_damage) /\ RLess(Zero, st.funding_rate)
    THEN [flush_probability |-> RMul(structural_damage, Rat(8, 10)),
          target |-> st.support_level]
    ELSE IF regime = "consolidation_bleed" /\ RLess(st.rsi_1h, RInt(40))
    THEN [flush_probability |-> Rat(5, 10), target |-> st.support_level]
    ELSE [flush_probability |-> Rat(2, 10), target |-> st.resistance_level]

\* the two labels of the returned dict (lines 125 and 127)
SHORT_FLUSH == "SHORT_FLUSH"

\* the source spells the label 'NEUTRAL/CONSOLIDATION'
NEUTRAL_CONSOLIDATION == "NEUTRAL/CONSOLIDATION"

\* Signal with the confidence threshold 0.7 in place of 0.65
SignalAtHigh(p) == IF RLess(Rat(7, 10), p) THEN SHORT_FLUSH ELSE NEUTRAL_CONSOLIDATION

Signal(p) == IF RLess(Rat(65, 100), p) THEN SHORT_FLUSH ELSE NEUTRAL_CONSOLIDATION

\* Confidence with MEDIUM from 0.5 on (>= 0.5 in place of > 0.5)
ConfidenceInclusive(p) ==
    IF RLess(Rat(7, 10), p) THEN "HIGH"
    ELSE IF RLeq(Rat(5, 10), p) THEN "MEDIUM"
    ELSE "LOW"

Confidence(p) ==
    IF RLess(Rat(7, 10), p) THEN "HIGH"
    ELSE IF RLess(Rat(5, 10), p) THEN "MEDIUM"
    ELSE "LOW"

---------------------------------------------------------------------------
(* Outcomes of predict.  The returned dict holds 'features': self.features *)
(* (line 126): a reference to the predictor's one dict object, made in     *)
(* __init__ and never rebound.  The field features of a result is that     *)
(* reference, and Deref reads what it refers to at the time of the read.   *)

SelfFeatures == "self.features"

Deref(ref) == features

NoResult ==
    [status |-> "none", flush_probability |-> Zero, target_price |-> Zero,
     regime |-> "none", signal |-> "none", features |-> SelfFeatures,
     confidence |-> "none"]

\* predict left by ZeroDivisionError: nothing is returned
Raised == [NoResult EXCEPT !.status = "ZeroDivisionError"]

\* the dict of lines 121-128
Returned(self_fp, target, regime) ==
    [status |-> "ok", flush_probability |-> self_fp, target_price |-> target,
     regime |-> regime, signal |-> Signal(self_fp), features |-> SelfFeatures,
     confidence |-> Confidence(self_fp)]

NoState ==
    [price |-> Zero, funding_rate |-> Zero, funding_countdown_hours |-> Zero,
     volume_24h |-> Zero, rsi_1h |-> Zero, support_level |-> Zero,
     resistance_level |-> Zero, structure |-> "none"]

\* what the caller keeps of a call: the returned dict, and for the properties
\* the MarketState it was called with and the feature values it showed on return
NothingHeld ==
    [status |-> "none", result |-> NoResult, of_state |-> NoState,
     features_at_return |-> EmptyDict]

Kept(res, st, shown) ==
    [status |-> "ok", result |-> res, of_state |-> st, features_at_return |-> shown]

---------------------------------------------------------------------------
(* predict(self, state): the whole method, to its return or to the         *)
(* exception that leaves it.                                               *)

\* Decide with a default branch that leaves self.flush_probability as it was
DecideStaleDefault(sb, regime, m) ==
    /\ features' = sb.features
    /\ flush_probability' =
          (IF m.flush_probability = Rat(2, 10) THEN flush_probability
                                               ELSE m.flush_probability)
    /\ result' = Returned(flush_probability', m.target, regime)

\* lines 102-128, from the three components to the returned dict
Decide(sb, regime, m) ==
    /\ features' = sb.features
    /\ flush_probability' = m.flush_probability
    /\ result' = Returned(m.flush_probability, m.target, regime)

\* lines 98-128, after calculate_funding_pressure has returned fp
Score(st, hour, fp, sb) ==
    IF sb.raised
    THEN /\ features' = sb.features
         /\ flush_probability' = flush_probability
         /\ result' = Raised
    ELSE Decide(sb, time_regime_classifier(hour, st),
                FlushModel(st, fp.ret, sb.ret, time_regime_classifier(hour, st)))

\* lines 97-128
Run(st, hour, fp) ==
    IF fp.raised
    THEN /\ features' = fp.features
         /\ flush_probability' = flush_probability
         /\ result' = Raised
    ELSE Score(st, hour, fp, structural_breakdown_score(fp.features, st))

\* the caller calls predict(st); with keep it keeps the dict that comes back
Predict(st, keep) ==
    /\ state' = st
    /\ Run(st, hour_utc, calculate_funding_pressure(features, st))
    /\ IF keep /\ result'.status = "ok"
       THEN /\ held' = Kept(result', st, features')
            /\ ticked' = FALSE
            /\ between' = FALSE
       ELSE /\ held' = held
            /\ ticked' = ticked
            /\ between' = (between \/ (held.status = "ok" /\ st # held.of_state))
    /\ UNCHANGED hour_utc

---------------------------------------------------------------------------
(* The environment.                                                        *)

\* the wall clock passes into the next hour
Tick ==
    /\ hour_utc' = (hour_utc + 1) % 24
    /\ ticked' = (held.status = "ok")
    /\ UNCHANGED <<state, flush_probability, features, result, held, between>>

---------------------------------------------------------------------------
(* Inputs.                                                                 *)

\* the snapshot of the __main__ block (lines 133-142), volume in millions
ReferenceState ==
    [price |-> RInt(82845), funding_rate |-> Rat(60, 100000),
     funding_countdown_hours |-> Rat(295, 100), volume_24h |-> RInt(3710),
     rsi_1h |-> Rat(375, 10), support_level |-> RInt(81118),
     resistance_level |-> RInt(83400), structure |-> "consolidation"]

\* around support 100: below it, on it, 1%, 3% and 12% above it
GridPrices == {RInt(99), RInt(100), RInt(101), RInt(103), RInt(112)}

GridFundingRates == {Rat(-8, 10000), Zero, Rat(6, 10000), Rat(8, 10000)}

\* the longest countdown of the grid, in hours: a whole 8-hour funding cycle
MaxCountdown == 8

GridCountdowns == {Zero, One, RInt(3), RInt(MaxCountdown)}

\* in millions: none, 3e9, and 6e9 (above the 5e9 scale)
GridVolumes == {Zero, RInt(3000), RInt(6000)}

GridRsi == {Zero, Rat(75, 2), RInt(40), RInt(50), RInt(100)}

\* resistance on the support and above it
GridResistances == {RInt(100), RInt(105)}

WellFormedGrid ==
    [price : GridPrices, funding_rate : GridFundingRates,
     funding_countdown_hours : GridCountdowns, volume_24h : GridVolumes,
     rsi_1h : GridRsi, support_level : {RInt(100)},
     resistance_level : GridResistances, structure : {"consolidation"}]

\* snapshots with a zero support_level, a zero resistance_level, or both
ZeroLevelGrid ==
    [price : {RInt(100)}, funding_rate : {Zero, Rat(6, 10000)},
     funding_countdown_hours : {Rat(1, 2)}, volume_24h : {RInt(3000)},
     rsi_1h : {Rat(75, 2)}, support_level : {Zero, RInt(100)},
     resistance_level : {Zero, RInt(105)}, structure : {"breakdown"}]

Snapshots == WellFormedGrid \cup ZeroLevelGrid \cup {ReferenceState}

Hours == 0 .. 23

\* a broken structure half an hour before funding: rules 1 and 2 both match
BreakdownState ==
    [price |-> RInt(99), funding_rate |-> Rat(8, 10000),
     funding_countdown_hours |-> Rat(1, 2), volume_24h |-> RInt(6000),
     rsi_1h |-> Zero, support_level |-> RInt(100),
     resistance_level |-> RInt(105), structure |-> "breakdown"]

ZeroSupportState == [BreakdownState EXCEPT !.price = RInt(100), !.support_level = Zero]

ZeroResistanceState == [BreakdownState EXCEPT !.resistance_level = Zero]

\* the reference snapshot with funding exactly one hour away
HourAwayState == [ReferenceState EXCEPT !.funding_countdown_hours = One]

\* the snapshots the caller of the full machine builds
CallSnapshots ==
    {ReferenceState, HourAwayState, BreakdownState, ZeroSupportState, ZeroResistanceState}

\* the predictor after __init__ (lines 19-21), nothing returned or kept yet
Constructed ==
    /\ flush_probability = Zero
    /\ features = EmptyDict
    /\ result = NoResult
    /\ held = NothingHeld
    /\ ticked = FALSE
    /\ between = FALSE

\* the full machine: any number of calls on one predictor while the clock runs
Init ==
    /\ Constructed
    /\ hour_utc \in Hours
    /\ state = NoState

Next ==
    \/ Tick
    \/ \E st \in CallSnapshots, keep \in BOOLEAN : Predict(st, keep)

Spec == Init /\ [][Next]_vars

\* one evaluation of every snapshot of the grid at every hour
InitGrid ==
    /\ Constructed
    /\ hour_utc \in Hours
    /\ state \in Snapshots

NextGrid == Predict(state, FALSE)

SpecGrid == InitGrid /\ [][NextGrid]_vars

---------------------------------------------------------------------------
(* Properties.  Under SpecGrid a state with result.status # "none" is the  *)
(* state right after predict(state) at hour hour_utc.                      *)

Called == result.status # "none"

Ok == result.status = "ok"

WellFormed(st) ==
    /\ RLess(Zero, st.price)
    /\ RLess(Zero, st.support_level)
    /\ RLess(Zero, st.resistance_level)
    /\ RLeq(Zero, st.volume_24h)
    /\ RLeq(Zero, st.funding_countdown_hours)
    /\ RLeq(Zero, st.rsi_1h) /\ RLeq(st.rsi_1h, RInt(100))

\* the conditions of the first three rules, on the values the call computed
Rule1Matches ==
    /\ result.regime = "funding_liquidation_window"
    /\ RLess(Rat(6, 10), features["funding_pressure"])

Rule2Matches ==
    /\ RLess(Rat(7, 10), features["structure_score"])
    /\ RLess(Zero, state.funding_rate)

Rule3Matches ==
    /\ result.regime = "consolidation_bleed"
    /\ RLess(state.rsi_1h, RInt(40))

Rule1Fires == Rule1Matches

Rule2Fires == ~Rule1Matches /\ Rule2Matches

Rule3Fires == ~Rule1Matches /\ ~Rule2Matches /\ Rule3Matches

DefaultFires == ~Rule1Matches /\ ~Rule2Matches /\ ~Rule3Matches

Rule1Probability ==
    RMin(RMul(RMul(features["funding_pressure"], features["structure_score"]),
              Rat(12, 10)),
         Rat(85, 100))

\* C1: for a well-formed snapshot at any hour, the flush_probability that
\* predict returns lies in [0, 0.85], whichever rule fired.
C1_ProbabilityInRange ==
    (Ok /\ WellFormed(state)) =>
        /\ RLeq(Zero, result.flush_probability)
        /\ RLeq(result.flush_probability, Rat(85, 100))

\* rule 1 fired on a well-formed snapshot and the cap 0.85 cut its product down
C1_Witness ==
    /\ Ok /\ WellFormed(state) /\ Rule1Fires
    /\ RLess(Rat(85, 100), RMul(RMul(features["funding_pressure"],
                                      features["structure_score"]), Rat(12, 10)))
    /\ result.flush_probability = Rat(85, 100)

\* C2: predict returns the outcome of the first rule that matches, in the
\* order rule 1, rule 2, rule 3, default; when rules 1 and 2 both match the
\* result is rule 1's.
C2_FirstMatchWins ==
    Ok =>
        /\ Rule1Fires =>
              /\ result.flush_probability = Rule1Probability
              /\ result.target_price = RMul(state.support_level, Rat(995, 1000))
        /\ Rule2Fires =>
              /\ result.flush_probability = RMul(features["structure_score"], Rat(8, 10))
              /\ result.target_price = state.support_level
        /\ Rule3Fires =>
              /\ result.flush_probability = Rat(5, 10)
              /\ result.target_price = state.support_level
        /\ DefaultFires =>
              /\ result.flush_probability = Rat(2, 10)
              /\ result.target_price = state.resistance_level

\* rules 1 and 2 both match, and their outcomes differ
C2_Witness ==
    /\ Ok /\ Rule1Matches /\ Rule2Matches
    /\ Rule1Probability # RMul(features["structure_score"], Rat(8, 10))
    /\ result.flush_probability = Rule1Probability

\* the table of the five labels, by hour and countdown
RegimeTable(hour, countdown) ==
    CASE hour \in 8 .. 15 /\ RLess(countdown, One) -> "funding_liquidation_window"
      [] hour \in 8 .. 15 /\ ~RLess(countdown, One) -> "consolidation_bleed"
      [] hour \in 0 .. 7 -> "asia_deleveraging"
      [] hour \in 19 .. 21 -> "us_momentum"
      [] hour \in {16, 17, 18, 22, 23} -> "standard"

\* C3: the regime of every returned result is the label the table gives for
\* the hour of the call and the countdown of the snapshot, whatever else the
\* snapshot holds and whatever calls came before.  (A step that changes the
\* state and leaves the clock alone is a call of predict.)
C3_RegimeByHourAndCountdown ==
    [][(hour_utc' = hour_utc /\ result'.status = "ok") =>
          result'.regime = RegimeTable(hour_utc, state'.funding_countdown_hours)]_vars

\* a result at hour 21, the closed end of [19, 21], after an earlier call was kept
C3_Witness ==
    /\ Ok /\ held.status = "ok" /\ between
    /\ hour_utc = 21 /\ result.regime = "us_momentum"

\* C4 as stated: when rule 3 fires the result is 0.5, supportLevel,
\* NEUTRAL_CONSOLIDATION and confidence MEDIUM, as for the reference snapshot
\* at hour 13.
C4_Rule3Medium ==
    /\ (Ok /\ Rule3Fires) =>
          /\ result.flush_probability = Rat(5, 10)
          /\ result.target_price = state.support_level
          /\ result.signal = NEUTRAL_CONSOLIDATION
          /\ result.confidence = "MEDIUM"
    /\ (Called /\ state = ReferenceState /\ hour_utc = 13) =>
          /\ result.regime = "consolidation_bleed"
          /\ result.flush_probability = Rat(5, 10)
          /\ result.target_price = RInt(81118)
          /\ result.signal = NEUTRAL_CONSOLIDATION
          /\ result.confidence = "MEDIUM"

\* C4 amended: when rule 3 fires the result is 0.5, supportLevel,
\* NEUTRAL_CONSOLIDATION and confidence LOW (0.5 is not > 0.5); the reference
\* snapshot at hour 13 gives consolidation_bleed, 0.5, 81118,
\* NEUTRAL_CONSOLIDATION, LOW.
C4_Rule3Low ==
    /\ (Ok /\ Rule3Fires) =>
          /\ result.flush_probability = Rat(5, 10)
          /\ result.target_price = state.support_level
          /\ result.signal = NEUTRAL_CONSOLIDATION
          /\ result.confidence = "LOW"
    /\ (Called /\ state = ReferenceState /\ hour_utc = 13) =>
          /\ Ok /\ Rule3Fires
          /\ result.regime = "consolidation_bleed"
          /\ result.flush_probability = Rat(5, 10)
          /\ result.target_price = RInt(81118)
          /\ result.signal = NEUTRAL_CONSOLIDATION
          /\ result.confidence = "LOW"

\* the reference snapshot evaluated at hour 13
C4_Witness == Ok /\ state = ReferenceState /\ hour_utc = 13 /\ Rule3Fires

\* C5: the features of a result the caller has kept are still the values
\* computed for that result's own call, whatever calls came after it.
C5_KeptFeaturesUnchanged ==
    held.status = "ok" => Deref(held.result.features) = held.features_at_return

\* C6: predict called again with the same MarketState while the hour is the
\* same returns what it returned before (probability, target, regime, signal,
\* confidence, feature values), whatever calls ran in between.
C6_SameInputSameResult ==
    (held.status = "ok" /\ ~ticked /\ Called /\ state = held.of_state) =>
        /\ result = held.result
        /\ Deref(result.features) = held.features_at_return

\* the kept call, then predict on another MarketState, then the kept call's
\* MarketState again within the hour
C6_Witness ==
    /\ held.status = "ok" /\ ~ticked /\ between
    /\ Ok /\ state = held.of_state

ZeroLevel(st) == st.support_level = Zero \/ st.resistance_level = Zero

\* C7: a call with supportLevel == 0 or resistanceLevel == 0 (and a positive
\* price) fails with an error, and leaves the predictor's features and
\* flush_probability as they were before the call.
C7_FailsBeforeComputation ==
    [][(hour_utc' = hour_utc /\ ZeroLevel(state') /\ RLess(Zero, state'.price)) =>
          /\ result'.status = "ZeroDivisionError"
          /\ features' = features
          /\ flush_probability' = flush_probability]_vars

\* C8: signal is SHORT_FLUSH exactly when flush_probability > 0.65, else
\* NEUTRAL_CONSOLIDATION; confidence is HIGH exactly when it is > 0.7, MEDIUM
\* when 0.5 < it <= 0.7, LOW when it is <= 0.5.
C8_LabelsByThreshold ==
    Ok =>
        /\ result.signal =
              (IF RLess(Rat(65, 100), result.flush_probability)
               THEN SHORT_FLUSH ELSE NEUTRAL_CONSOLIDATION)
        /\ (result.confidence = "HIGH") <=> RLess(Rat(7, 10), result.flush_probability)
        /\ (result.confidence = "MEDIUM") <=>
              (/\ RLess(Rat(5, 10), result.flush_probability)
               /\ RLeq(result.flush_probability, Rat(7, 10)))
        /\ (result.confidence = "LOW") <=> RLeq(result.flush_probability, Rat(5, 10))

\* a probability between the two upper thresholds: SHORT_FLUSH, yet MEDIUM
C8_Witness ==
    /\ Ok
    /\ RLess(Rat(65, 100), result.flush_probability)
    /\ RLess(result.flush_probability, Rat(7, 10))
    /\ result.signal = SHORT_FLUSH /\ result.confidence = "MEDIUM"

PenaltyCondition(st) ==
    /\ RLess(Zero, st.funding_rate)
    /\ RLess(RMul(st.resistance_level, Rat(1, 100)),
             RSub(st.resistance_level, st.price))

C10_ShortFlushNeverResistance ==
    (Ok /\ WellFormed(state)) =>
        /\ result.signal = SHORT_FLUSH =>
              /\ Rule1Fires \/ Rule2Fires
              /\ result.target_price \in
                    {state.support_level, RMul(state.support_level, Rat(995, 1000))}
              /\ result.target_price # state.resistance_level
        /\ result.confidence = "HIGH" => result.signal = SHORT_FLUSH
        /\ (Rule3Fires \/ DefaultFires) =>
              /\ result.signal = NEUTRAL_CONSOLIDATION
              /\ result.confidence = "LOW"

\* C10 amended: as stated, except that the target of a SHORT_FLUSH is known
\* to differ from resistanceLevel only when supportLevel < resistanceLevel.
C10_ShortFlushTargetsSupport ==
    (Ok /\ WellFormed(state)) =>
        /\ result.signal = SHORT_FLUSH =>
              /\ Rule1Fires \/ Rule2Fires
              /\ result.target_price \in
                    {state.support_level, RMul(state.support_level, Rat(995, 1000))}
              /\ RLess(state.support_level, state.resistance_level) =>
                    result.target_price # state.resistance_level
        /\ result.confidence = "HIGH" => result.signal = SHORT_FLUSH
        /\ (Rule3Fires \/ DefaultFires) =>
              /\ result.signal = NEUTRAL_CONSOLIDATION
              /\ result.confidence = "LOW"

\* a SHORT_FLUSH from rule 2 with support below resistance
C10_Witness ==
    /\ Ok /\ WellFormed(state) /\ Rule2Fires
    /\ result.signal = SHORT_FLUSH
    /\ RLess(state.support_level, state.resistance_level)
    /\ result.target_price = state.support_level

====
